---- MODULE Spec2Model ----
(***************************************************************************)
(* A model of the liquidity pool of src/src/lib.rs: LpPool::init,          *)
(* add_liquidity, remove_liquidity, swap, calculate_fee and the test       *)
(* tests::test_story_example.                                              *)
(*                                                                         *)
(* The program computes on u64 values with u128 intermediates.  TLC's      *)
(* integers are 32 bits wide, so a u64/u128 value is modelled exactly as   *)
(* a sequence of decimal limbs, least significant limb first, without      *)
(* leading zero limbs: 1_000_000 is <<0, 100>> and zero is <<>>.  Two      *)
(* values are equal iff their limb sequences are equal.                    *)
(*                                                                         *)
(* A + or - on u64 that overflows panics in a build with overflow checks   *)
(* and wraps in a build without them; the model keeps both builds          *)
(* (overflow_checks).  A division by zero panics in both, and `as u64`     *)
(* keeps the low 64 bits in both.  What dbg! and println! write is not     *)
(* modelled.                                                               *)
(***************************************************************************)
EXTENDS Integers, Sequences, FiniteSets, TLC

VARIABLES pool, ret, overflow_checks, caller, steps, panicked

vars == <<pool, ret, overflow_checks, caller, steps, panicked>>

----------------------------------------------------------------------------
(* Exact natural-number arithmetic on limb sequences.                      *)

Base == 10^4

RECURSIVE N(_)
\* the limb sequence of the integer literal n >= 0
N(n) == IF n = 0 THEN <<>> ELSE <<n % Base>> \o N(n \div Base)

Zero == <<>>

Limb(a, i) == IF i <= Len(a) THEN a[i] ELSE 0

RECURSIVE Norm(_)
Norm(s) ==
    IF s = <<>> THEN s
    ELSE IF s[Len(s)] = 0 THEN Norm(SubSeq(s, 1, Len(s) - 1)) ELSE s

RECURSIVE AddC(_, _, _, _)
AddC(a, b, i, c) ==
    IF i > Len(a) /\ i > Len(b)
    THEN IF c = 0 THEN <<>> ELSE <<c>>
    ELSE LET s == Limb(a, i) + Limb(b, i) + c
         IN  <<s % Base>> \o AddC(a, b, i + 1, s \div Base)

\* a + b
Add(a, b) == AddC(a, b, 1, 0)

RECURSIVE SubB(_, _, _, _)
SubB(a, b, i, w) ==
    IF i > Len(a) THEN <<>>
    ELSE LET d == Limb(a, i) - Limb(b, i) - w
         IN  IF d < 0 THEN <<d + Base>> \o SubB(a, b, i + 1, 1)
                      ELSE <<d>> \o SubB(a, b, i + 1, 0)

RECURSIVE LtAt(_, _, _)
LtAt(a, b, i) ==
    IF i = 0 THEN FALSE
    ELSE IF a[i] # b[i] THEN a[i] < b[i] ELSE LtAt(a, b, i - 1)

\* a < b
Lt(a, b) == IF Len(a) # Len(b) THEN Len(a) < Len(b) ELSE LtAt(a, b, Len(a))

\* a <= b
Le(a, b) == ~Lt(b, a)

\* a - b, for a >= b
Sub(a, b) == Norm(SubB(a, b, 1, 0))

RECURSIVE MulLimb(_, _, _, _)
MulLimb(a, m, i, c) ==
    IF i > Len(a)
    THEN IF c = 0 THEN <<>> ELSE <<c>>
    ELSE LET p == a[i] * m + c
         IN  <<p % Base>> \o MulLimb(a, m, i + 1, p \div Base)

Shift(a) == IF a = <<>> THEN a ELSE <<0>> \o a

RECURSIVE Mul(_, _)
\* a * b
Mul(a, b) ==
    IF a = <<>> \/ b = <<>> THEN <<>>
    ELSE Add(Norm(MulLimb(a, b[1], 1, 0)), Shift(Mul(a, Tail(b))))

RECURSIVE Digit(_, _, _, _)
\* the largest q in lo..hi with q * b <= r, for lo * b <= r
Digit(r, b, lo, hi) ==
    IF lo = hi THEN lo
    ELSE LET mid == (lo + hi + 1) \div 2
         IN  IF Le(Norm(MulLimb(b, mid, 1, 0)), r)
             THEN Digit(r, b, mid, hi)
             ELSE Digit(r, b, lo, mid - 1)

\* the integer of a number below Base^2
Small(a) == Limb(a, 1) + Base * Limb(a, 2)

\* one step of the long division by b: from qr, the quotient and remainder
\* of the higher limbs, to those of the number with the next limb x appended.
\* The quotient limb lies between the quotients of the leading limbs rt of
\* the remainder by bt + 1 and by bt, where bt is the leading limb of b.
DivStep(qr, x, b) ==
    LET r == Norm(<<x>> \o qr[2])
        bt == b[Len(b)]
        rt == Small(SubSeq(r, Len(b), Len(r)))
        hi == IF rt \div bt < Base THEN rt \div bt ELSE Base - 1
        q == IF Len(r) <= 2 /\ Len(b) <= 2
             THEN Small(r) \div Small(b)
             ELSE Digit(r, b, rt \div (bt + 1), hi)
    IN  <<Norm(<<q>> \o qr[1]), Sub(r, Norm(MulLimb(b, q, 1, 0)))>>

RECURSIVE DivAt(_, _, _)
\* <<floor(h / b), h mod b>> for the number h made of the limbs i.. of a
\* (the set binds the result of the higher limbs as a value)
DivAt(a, b, i) ==
    IF i > Len(a) THEN <<Zero, Zero>>
    ELSE CHOOSE qr \in {DivStep(h, a[i], b) : h \in {DivAt(a, b, i + 1)}} :
            TRUE

\* <<floor(a / b), a mod b>>, for b > 0
DivMod(a, b) == DivAt(a, b, 1)

\* floor(a / b), for b > 0
Div(a, b) == DivMod(a, b)[1]

TwoTo32 == Mul(N(65536), N(65536))
TwoTo64 == Mul(TwoTo32, TwoTo32)
U64Max == Sub(TwoTo64, N(1))

\* `x as u64` for a u128 x: the low 64 bits
AsU64(x) == IF Lt(x, TwoTo64) THEN x ELSE DivMod(x, TwoTo64)[2]

----------------------------------------------------------------------------
(* The pool and its operations.                                            *)

\* the fixed-point scale of Price and Fee
Scale == N(1000000)

\* marks an output a call did not produce
None == <<-1>>

\* `self.0 + other.0` on u64: the wrapped sum, and whether it overflowed
u64_add(a, b) ==
    LET s == Add(a, b)
    IN  [v |-> AsU64(s), overflow |-> ~Lt(s, TwoTo64)]

\* `self.0 - other.0` on u64: the wrapped difference, and whether it
\* underflowed
u64_sub(a, b) ==
    IF Lt(a, b) THEN [v |-> Sub(Add(a, TwoTo64), b), overflow |-> TRUE]
                ELSE [v |-> Sub(a, b), overflow |-> FALSE]

\* an overflowing + or - panics when the build has overflow checks (the
\* debug profile) and wraps when it has none (the release profile)
Panics(x) == overflow_checks /\ x.overflow

LpPool(price, token_amount, st_token_amount, lp_token_amount, liquidity_target, min_fee, max_fee) ==
    [price |-> price, token_amount |-> token_amount,
     st_token_amount |-> st_token_amount,
     lp_token_amount |-> lp_token_amount,
     liquidity_target |-> liquidity_target,
     min_fee |-> min_fee, max_fee |-> max_fee]

init(price, min_fee, max_fee, liquidity_target) ==
    LpPool(price, Zero, Zero, Zero, liquidity_target, min_fee, max_fee)

\* What a call did: its outcome (status "Ok", "InsufficientLiquidity" or
\* "Panic"), the fault that made it panic, the locals whose + or -
\* overflowed, the pool it returned and the values it computed.
Outcome(op, self, arg) ==
    [op |-> op, self |-> self, arg |-> arg,
     status |-> "Ok", fault |-> "none", overflowed |-> {},
     new_pool |-> None,
     lp_tokens_minted |-> None,
     token_withdrawn |-> None, staked_token_withdrawn |-> None,
     token_amount |-> None, fee |-> None, fee_amount |-> None,
     token_amount_net |-> None]

Err(o, e) == [o EXCEPT !.status = e]

Panic(o, fault, local) ==
    [o EXCEPT !.status = "Panic", !.fault = fault,
              !.overflowed = IF local = "" THEN @ ELSE @ \cup {local}]

\* the locals of xs (pairs <<name, checked value>>) that wrapped
Wrapped(xs) == {x[1] : x \in {y \in xs : y[2].overflow}}

\* the shares minted with the ratio of reserve and shares inverted
lp_tokens_minted_inverse(self, token_amount) ==
    IF self.lp_token_amount = Zero
    THEN token_amount
    ELSE Div(Mul(token_amount, self.token_amount), self.lp_token_amount)

\* the shares add_liquidity mints, before the quotient of its second branch
\* is cast to u64 (the division has a reserve that is not 0)
lp_tokens_minted_of(self, token_amount) ==
    IF self.lp_token_amount = Zero
    THEN token_amount
    ELSE Div(Mul(token_amount, self.lp_token_amount), self.token_amount)

add_liquidity(self, token_amount) ==
    LET o == Outcome("add_liquidity", self, token_amount)
        new_token_amount == u64_add(self.token_amount, token_amount)
        lp_tokens_minted == AsU64(lp_tokens_minted_of(self, token_amount))
        new_lp_token_amount == u64_add(self.lp_token_amount, lp_tokens_minted)
    IN  IF Panics(new_token_amount)
        THEN Panic(o, "overflow", "new_token_amount")
        ELSE IF self.lp_token_amount # Zero /\ self.token_amount = Zero
        THEN Panic([o EXCEPT !.overflowed =
                        Wrapped({<<"new_token_amount", new_token_amount>>})],
                   "div_by_zero", "")
        ELSE IF Panics(new_lp_token_amount)
        THEN Panic(o, "overflow", "new_lp_token_amount")
        ELSE [o EXCEPT
                !.overflowed =
                    Wrapped({<<"new_token_amount", new_token_amount>>,
                             <<"new_lp_token_amount", new_lp_token_amount>>}),
                !.new_pool =
                    [self EXCEPT !.token_amount = new_token_amount.v,
                                 !.lp_token_amount = new_lp_token_amount.v],
                !.lp_tokens_minted = lp_tokens_minted]

\* the guard of remove_liquidity with the comparison turned around
remove_liquidity_guard_reversed(self, lp_token_amount) ==
    Lt(lp_token_amount, self.lp_token_amount)

\* `lp_token_amount.0 > self.lp_token_amount.0`
remove_liquidity_guard(self, lp_token_amount) ==
    Lt(self.lp_token_amount, lp_token_amount)

\* the share proportion taken for 1 whatever the amount of shares
lp_token_proportion_whole(self, lp_token_amount) == N(1)

\* `lp_token_amount.0 as u128 / self.lp_token_amount.0 as u128`, for a
\* pool with shares outstanding
lp_token_proportion_of(self, lp_token_amount) ==
    Div(lp_token_amount, self.lp_token_amount)

remove_liquidity(self, lp_token_amount) ==
    LET o == Outcome("remove_liquidity", self, lp_token_amount)
        lp_token_proportion == lp_token_proportion_of(self, lp_token_amount)
        token_withdrawn == AsU64(Mul(self.token_amount, lp_token_amount))
        staked_token_withdrawn ==
            AsU64(Mul(self.st_token_amount, lp_token_proportion))
        new_token_amount == u64_sub(self.token_amount, token_withdrawn)
        new_st_token_amount ==
            u64_sub(self.st_token_amount, staked_token_withdrawn)
        new_lp_token_amount == u64_sub(self.lp_token_amount, lp_token_amount)
    IN  IF remove_liquidity_guard(self, lp_token_amount)
        THEN Err(o, "InsufficientLiquidity")
        ELSE IF self.lp_token_amount = Zero
        THEN Panic(o, "div_by_zero", "")
        ELSE IF Panics(new_token_amount)
        THEN Panic(o, "overflow", "new_token_amount")
        ELSE IF Panics(new_st_token_amount)
        THEN Panic(o, "overflow", "new_st_token_amount")
        ELSE IF Panics(new_lp_token_amount)
        THEN Panic(o, "overflow", "new_lp_token_amount")
        ELSE [o EXCEPT
                !.overflowed =
                    Wrapped({<<"new_token_amount", new_token_amount>>,
                             <<"new_st_token_amount", new_st_token_amount>>,
                             <<"new_lp_token_amount", new_lp_token_amount>>}),
                !.new_pool =
                    [self EXCEPT !.token_amount = new_token_amount.v,
                                 !.st_token_amount = new_st_token_amount.v,
                                 !.lp_token_amount = new_lp_token_amount.v],
                !.token_withdrawn = token_withdrawn,
                !.staked_token_withdrawn = staked_token_withdrawn]

\* the fee adjustment without its division by the target
fee_adjustment_unscaled(fee_diff, amount_after, liquidity_target) ==
    Mul(fee_diff, amount_after)

\* `fee_diff as u128 * amount_after as u128 / liquidity_target as u128`, for
\* a positive target
fee_adjustment_of(fee_diff, amount_after, liquidity_target) ==
    Div(Mul(fee_diff, amount_after), liquidity_target)

\* the test of calculate_fee's first branch made strict
reaches_target_strict(liquidity_target, amount_after) ==
    Lt(liquidity_target, amount_after)

\* `amount_after >= liquidity_target`, the test of calculate_fee's first
\* branch
reaches_target(liquidity_target, amount_after) ==
    Le(liquidity_target, amount_after)

\* calculate_fee with the fee of the two branches exchanged: max_fee at or
\* above the target, and a fee rising from min_fee below it
calculate_fee_exchanged(max_fee, min_fee, liquidity_target, amount_after) ==
    IF reaches_target(liquidity_target, amount_after)
    THEN [fee |-> max_fee, fault |-> "none", overflowed |-> {}]
    ELSE LET fee_diff == u64_sub(max_fee, min_fee)
             fee_adjustment ==
                 fee_adjustment_of(fee_diff.v, amount_after, liquidity_target)
             fee == u64_add(min_fee, AsU64(fee_adjustment))
         IN  IF Panics(fee_diff)
             THEN [fee |-> None, fault |-> "overflow",
                   overflowed |-> {"fee_diff"}]
             ELSE IF liquidity_target = Zero
             THEN [fee |-> None, fault |-> "div_by_zero",
                   overflowed |-> Wrapped({<<"fee_diff", fee_diff>>})]
             ELSE IF Panics(fee)
             THEN [fee |-> None, fault |-> "overflow", overflowed |-> {"fee"}]
             ELSE [fee |-> fee.v, fault |-> "none",
                   overflowed |-> Wrapped({<<"fee_diff", fee_diff>>,
                                           <<"fee", fee>>})]

\* the fee rate, or the fault that stops the computation
calculate_fee(max_fee, min_fee, liquidity_target, amount_after) ==
    IF reaches_target(liquidity_target, amount_after)
    THEN [fee |-> min_fee, fault |-> "none", overflowed |-> {}]
    ELSE LET fee_diff == u64_sub(max_fee, min_fee)
             fee_adjustment ==
                 fee_adjustment_of(fee_diff.v, amount_after, liquidity_target)
             fee == u64_sub(max_fee, AsU64(fee_adjustment))
         IN  IF Panics(fee_diff)
             THEN [fee |-> None, fault |-> "overflow",
                   overflowed |-> {"fee_diff"}]
             ELSE IF liquidity_target = Zero
             THEN [fee |-> None, fault |-> "div_by_zero",
                   overflowed |-> Wrapped({<<"fee_diff", fee_diff>>})]
             ELSE IF Panics(fee)
             THEN [fee |-> None, fault |-> "overflow", overflowed |-> {"fee"}]
             ELSE [fee |-> fee.v, fault |-> "none",
                   overflowed |-> Wrapped({<<"fee_diff", fee_diff>>,
                                           <<"fee", fee>>})]

\* the fee amount with the fee taken for parts per thousand
fee_amount_per_thousand(token_amount, fee) ==
    Div(Mul(token_amount, fee), N(1000))

\* `token_amount as u128 * fee.0 as u128 / 1_000_000`
fee_amount_of(token_amount, fee) == Div(Mul(token_amount, fee), Scale)

\* the pool of a swap built afresh from the parameters, without the shares
swap_new_pool_afresh(self, new_token_balance, new_st_token_amount) ==
    [init(self.price, self.min_fee, self.max_fee, self.liquidity_target)
        EXCEPT !.token_amount = new_token_balance,
               !.st_token_amount = new_st_token_amount]

\* `LpPool { token_amount: new_token_balance, st_token_amount:
\* new_st_token_amount, ..self }`
swap_new_pool(self, new_token_balance, new_st_token_amount) ==
    [self EXCEPT !.token_amount = new_token_balance,
                 !.st_token_amount = new_st_token_amount]

swap(self, staked_token_amount) ==
    LET o == Outcome("swap", self, staked_token_amount)
        token_amount ==
            AsU64(Div(Mul(staked_token_amount, self.price), Scale))
        new_token_balance == u64_sub(self.token_amount, token_amount)
        fee == calculate_fee(self.max_fee, self.min_fee,
                             self.liquidity_target, new_token_balance.v)
        fee_amount == AsU64(fee_amount_of(token_amount, fee.fee))
        token_amount_net == u64_sub(token_amount, fee_amount)
        new_st_token_amount ==
            u64_add(self.st_token_amount, staked_token_amount)
    IN  IF Lt(self.token_amount, token_amount)
        THEN Err(o, "InsufficientLiquidity")
        ELSE IF Panics(new_token_balance)
        THEN Panic(o, "overflow", "new_token_balance")
        ELSE IF fee.fault # "none"
        THEN [o EXCEPT !.status = "Panic", !.fault = fee.fault,
                       !.overflowed = fee.overflowed,
                       !.token_amount = token_amount]
        ELSE IF Panics(token_amount_net)
        THEN Panic([o EXCEPT !.overflowed = fee.overflowed,
                             !.token_amount = token_amount,
                             !.fee = fee.fee, !.fee_amount = fee_amount],
                   "overflow", "token_amount_net")
        ELSE IF Panics(new_st_token_amount)
        THEN Panic([o EXCEPT !.token_amount = token_amount,
                             !.fee = fee.fee, !.fee_amount = fee_amount],
                   "overflow", "new_st_token_amount")
        ELSE [o EXCEPT
                !.overflowed = fee.overflowed \cup
                    Wrapped({<<"new_token_balance", new_token_balance>>,
                             <<"token_amount_net", token_amount_net>>,
                             <<"new_st_token_amount", new_st_token_amount>>}),
                !.new_pool = swap_new_pool(self, new_token_balance.v,
                                           new_st_token_amount.v),
                !.token_amount = token_amount,
                !.fee = fee.fee,
                !.fee_amount = fee_amount,
                !.token_amount_net = token_amount_net.v]

----------------------------------------------------------------------------
(* The callers: tests::test_story_example, and a caller that makes any     *)
(* calls.                                                                  *)

\* the longest sequence of calls the arbitrary caller makes
MaxSteps == 3

\* the arguments of LpPool::init in test_story_example
StoryInit ==
    [price |-> N(1500000), min_fee |-> N(1000), max_fee |-> N(90000),
     liquidity_target |-> Mul(N(90), N(1000000))]

\* the calls of test_story_example and the values it asserts
Story ==
    << [op |-> "add_liquidity", arg |-> Mul(N(100000), N(1000000)),
        expect |-> <<Mul(N(100000), N(1000000))>>],
       [op |-> "swap", arg |-> Mul(N(6), N(1000000)),
        expect |-> <<N(8991000)>>],
       [op |-> "add_liquidity", arg |-> Mul(N(10000), N(1000000)),
        expect |-> <<Mul(N(9999100), N(1000000))>>],
       [op |-> "swap", arg |-> Mul(N(30), N(1000000)),
        expect |-> <<N(43442370)>>],
       [op |-> "remove_liquidity", arg |-> N(109999100),
        expect |-> <<N(57566630), Mul(N(36), N(1000000))>>] >>

\* the arguments the arbitrary caller constructs pools with
Prices == {N(1000000), N(1500000), N(2000000)}
FeeBounds == {<<N(1000), N(90000)>>, <<N(0), N(1000000)>>,
              <<N(90000), N(1000)>>}
Targets == {N(0), N(3), Mul(N(90), N(1000000))}

InitArgs ==
    {[price |-> p, min_fee |-> f[1], max_fee |-> f[2],
      liquidity_target |-> t] : p \in Prices, f \in FeeBounds, t \in Targets}

\* the amounts the arbitrary caller passes
Amounts == {N(0), N(1), N(2), TwoTo32, U64Max}

\* the values a call returned to its caller, in the order of the tuple it
\* returns after the pool
Outputs(r) ==
    CASE r.op = "add_liquidity" -> <<r.lp_tokens_minted>>
      [] r.op = "swap" -> <<r.token_amount_net>>
      [] r.op = "remove_liquidity" ->
            <<r.token_withdrawn, r.staked_token_withdrawn>>
      [] OTHER -> <<>>

Call(op, self, arg) ==
    CASE op = "add_liquidity" -> add_liquidity(self, arg)
      [] op = "swap" -> swap(self, arg)
      [] op = "remove_liquidity" -> remove_liquidity(self, arg)

Init ==
    /\ overflow_checks \in BOOLEAN
    /\ caller \in {"any", "test_story_example"}
    /\ \E a \in IF caller = "any" THEN InitArgs ELSE {StoryInit} :
          /\ pool = init(a.price, a.min_fee, a.max_fee, a.liquidity_target)
          /\ ret = [Outcome("init", pool, Zero) EXCEPT !.new_pool = pool]
    /\ steps = 0
    /\ panicked = FALSE

\* the caller gets r: it holds the returned pool from now on when the call
\* succeeded, keeps the pool it had (its clone of the value it passed) when
\* the call returned an error, and is gone when the call panicked
Return(r) ==
    /\ ret' = r
    /\ pool' = IF r.status = "Ok" THEN r.new_pool ELSE pool
    /\ panicked' = (r.status = "Panic")
    /\ steps' = steps + 1
    /\ UNCHANGED <<overflow_checks, caller>>

CanCall == caller = "any" /\ ~panicked /\ steps < MaxSteps

AddLiquidity == CanCall /\ \E a \in Amounts : Return(add_liquidity(pool, a))

RemoveLiquidity ==
    CanCall /\ \E a \in Amounts : Return(remove_liquidity(pool, a))

Swap == CanCall /\ \E a \in Amounts : Return(swap(pool, a))

\* one call of test_story_example with its unwrap and its assertions: the
\* test panics when the call fails or returns another value than expected
test_story_example ==
    /\ caller = "test_story_example" /\ ~panicked /\ steps < Len(Story)
    /\ \E c \in {Story[steps + 1]} :
         \E r \in {Call(c.op, pool, c.arg)} :
            /\ ret' = r
            /\ pool' = IF r.status = "Ok" THEN r.new_pool ELSE pool
            /\ panicked' = (r.status # "Ok" \/ Outputs(r) # c.expect)
            /\ steps' = steps + 1
            /\ UNCHANGED <<overflow_checks, caller>>

Next == AddLiquidity \/ RemoveLiquidity \/ Swap \/ test_story_example

Spec == Init /\ [][Next]_vars

----------------------------------------------------------------------------
(* calculate_fee on its own: a caller that evaluates the fee curve of one  *)
(* set of parameters at one reserve after another.                         *)

\* the fee bounds and targets the curve is evaluated with
CurveFees == FeeBounds \cup {<<N(90000), N(90000)>>, <<N(7), U64Max>>}
CurveTargets == Targets \cup {U64Max}

\* the reserves the curve is evaluated at
Reserves ==
    {N(0), N(1), N(2), N(3), Mul(N(45), N(1000000)), N(89999999),
     Mul(N(90), N(1000000)), Sub(U64Max, N(1)), U64Max}

FeeInit ==
    /\ overflow_checks \in BOOLEAN
    /\ caller = "any"
    /\ \E f \in CurveFees, t \in CurveTargets :
          /\ pool = init(N(1000000), f[1], f[2], t)
          /\ ret = [Outcome("init", pool, Zero) EXCEPT !.new_pool = pool]
    /\ steps = 0
    /\ panicked = FALSE

\* one evaluation of calculate_fee with the parameters of the pool
CalculateFee ==
    /\ ~panicked
    /\ \E amount_after \in Reserves :
         \E f \in {calculate_fee(pool.max_fee, pool.min_fee,
                                  pool.liquidity_target, amount_after)} :
            /\ ret' = [Outcome("calculate_fee", pool, amount_after) EXCEPT
                          !.status = IF f.fault = "none" THEN "Ok"
                                     ELSE "Panic",
                          !.fault = f.fault,
                          !.overflowed = f.overflowed,
                          !.fee = f.fee]
            /\ panicked' = (f.fault # "none")
    /\ UNCHANGED <<pool, overflow_checks, caller, steps>>

FeeNext == CalculateFee

FeeSpec == FeeInit /\ [][FeeNext]_vars
----------------------------------------------------------------------------
(* The claims.                                                             *)

\* the parameters the contract assumes: min_fee <= max_fee <= 100% and a
\* positive liquidity target
WellFormed(p) ==
    /\ Le(p.min_fee, p.max_fee)
    /\ Le(p.max_fee, Scale)
    /\ p.liquidity_target # Zero

Balances(p) == <<p.token_amount, p.st_token_amount, p.lp_token_amount>>

\* the locals that hold the result of a subtraction on a balance
BalanceSubtractions ==
    {"new_token_amount", "new_st_token_amount", "new_lp_token_amount",
     "new_token_balance"}

\* C1: in a pool with min_fee <= max_fee <= 1_000_000 and a positive
\* liquidity target, no call of remove_liquidity or swap underflows a
\* subtraction on token_amount, st_token_amount or lp_token_amount,
\* neither as a panic nor as a wrapped balance.
C1_NoUnderflow ==
    (WellFormed(pool) /\ ret.op \in {"remove_liquidity", "swap"})
        => ret.overflowed \cap BalanceSubtractions = {}

\* the gross underlying value of a swap, as an exact integer
ExactGross(r) == Div(Mul(r.arg, r.self.price), Scale)

\* C2: a swap whose exact gross value floor(staked_token_amount * price /
\* 1_000_000) exceeds the reserve returns InsufficientLiquidity and leaves
\* the pool as it was.
C2_SwapInsufficient ==
    (ret.op = "swap" /\ Lt(ret.self.token_amount, ExactGross(ret)))
        => (ret.status = "InsufficientLiquidity" /\ pool = ret.self)

\* C3: remove_liquidity of more shares than the pool has outstanding
\* returns InsufficientLiquidity, returns no withdrawn amounts and leaves
\* the pool as it was.
C3_RemoveInsufficient ==
    (ret.op = "remove_liquidity"
        /\ Lt(ret.self.lp_token_amount, ret.arg))
        => /\ ret.status = "InsufficientLiquidity"
           /\ ret.token_withdrawn = None
           /\ ret.staked_token_withdrawn = None
           /\ pool = ret.self

\* a pool with shares outstanding refused a larger removal
C3_Witness ==
    /\ ret.op = "remove_liquidity"
    /\ ret.self.lp_token_amount # Zero
    /\ Lt(ret.self.lp_token_amount, ret.arg)
    /\ ret.status = "InsufficientLiquidity"

\* C4: after a successful swap the reserve went down by exactly the net
\* amount paid to the caller, so that the fee stays in the reserve.
C4_FeeRetained ==
    (ret.op = "swap" /\ ret.status = "Ok")
        => ret.self.token_amount =
              Add(pool.token_amount, ret.token_amount_net)

\* the reserve a successful swap r leaves: token_amount minus gross amount
ReserveAfter(r) == Sub(r.self.token_amount, r.token_amount)

\* C5 as stated: a successful swap applies min_fee when the reserve it
\* leaves is at least liquidity_target, and max_fee when that reserve is 0,
\* whatever the parameters of the pool.
C5_FeeBoundary ==
    (ret.op = "swap" /\ ret.status = "Ok")
        => /\ Le(ret.self.liquidity_target, ReserveAfter(ret))
                => ret.fee = ret.self.min_fee
           /\ ReserveAfter(ret) = Zero => ret.fee = ret.self.max_fee

\* C5 amended: a successful swap applies min_fee when the reserve it leaves
\* is at least liquidity_target, and max_fee when that reserve is 0 and
\* liquidity_target is positive.
C5_FeeBoundaryAmended ==
    (ret.op = "swap" /\ ret.status = "Ok")
        => /\ Le(ret.self.liquidity_target, ReserveAfter(ret))
                => ret.fee = ret.self.min_fee
           /\ (ReserveAfter(ret) = Zero /\ ret.self.liquidity_target # Zero)
                => ret.fee = ret.self.max_fee

\* a swap of a positive amount drained the reserve of a pool with a positive
\* target and paid max_fee, which differs from min_fee
C5_Witness ==
    /\ ret.op = "swap" /\ ret.status = "Ok"
    /\ ret.token_amount # Zero
    /\ ReserveAfter(ret) = Zero
    /\ ret.self.liquidity_target # Zero
    /\ ret.fee = ret.self.max_fee
    /\ ret.self.max_fee # ret.self.min_fee

\* C6: add_liquidity(d) on a pool without shares succeeds, mints d, adds d
\* to token_amount and sets lp_token_amount to d.
C6_Bootstrap ==
    (ret.op = "add_liquidity" /\ ret.self.lp_token_amount = Zero)
        => /\ ret.status = "Ok"
           /\ ret.lp_tokens_minted = ret.arg
           /\ pool.token_amount = Add(ret.self.token_amount, ret.arg)
           /\ pool.lp_token_amount = ret.arg

\* C7: every call of the end-to-end scenario succeeds and returns the
\* stated values.
C7_Story ==
    (caller = "test_story_example" /\ steps >= 1)
        => (ret.status = "Ok" /\ Outputs(ret) = Story[steps].expect)

\* C8: add_liquidity(0) succeeds, mints 0 and returns the pool it got.
C8_ZeroDeposit ==
    (ret.op = "add_liquidity" /\ ret.arg = Zero)
        => /\ ret.status = "Ok"
           /\ ret.lp_tokens_minted = Zero
           /\ pool = ret.self

\* C9: when add_liquidity(d) was the first call on a fresh pool and the
\* next call is remove_liquidity of the shares it minted, that call
\* succeeds and withdraws d tokens.
C9_RoundTrip ==
    [][(/\ steps = 1
        /\ ret.op = "add_liquidity" /\ ret.status = "Ok"
        /\ Balances(ret.self) = <<Zero, Zero, Zero>>
        /\ ret'.op = "remove_liquidity"
        /\ ret'.arg = ret.lp_tokens_minted)
           => (ret'.status = "Ok" /\ ret'.token_withdrawn = ret.arg)]_vars

\* C10: a successful swap (of a pool with min_fee <= max_fee <= 1_000_000
\* and a positive target) computes gross = floor(staked_token_amount *
\* price / 1_000_000), takes the fee rate at the reserve token_amount -
\* gross, fee_amount = floor(gross * fee / 1_000_000), pays gross -
\* fee_amount, and returns a pool with token_amount - gross and
\* st_token_amount + staked_token_amount.
C10_SwapFormulas ==
    (ret.op = "swap" /\ ret.status = "Ok" /\ WellFormed(ret.self))
        => /\ ret.token_amount = ExactGross(ret)
           /\ ret.fee = calculate_fee(ret.self.max_fee, ret.self.min_fee,
                                      ret.self.liquidity_target,
                                      ReserveAfter(ret)).fee
           /\ ret.fee_amount = Div(Mul(ret.token_amount, ret.fee), Scale)
           /\ ret.token_amount_net = Sub(ret.token_amount, ret.fee_amount)
           /\ pool.token_amount = ReserveAfter(ret)
           /\ pool.st_token_amount = Add(ret.self.st_token_amount, ret.arg)

\* C11 as stated: a swap that gets as far as the fee curve on a pool
\* constructed with liquidity_target == 0 stops at the division by zero of
\* the interpolation branch.
C11_TargetZeroFaults ==
    (ret.op = "swap" /\ ret.self.liquidity_target = Zero
        /\ ret.status # "InsufficientLiquidity"
        /\ "new_token_balance" \notin ret.overflowed)
        => ret.fault = "div_by_zero"

\* C11 amended: a swap on a pool constructed with liquidity_target == 0
\* never stops at a division by zero; when it gets as far as the fee curve
\* the first branch is taken and the fee is min_fee.
C11_TargetZeroMinFee ==
    (ret.op = "swap" /\ ret.self.liquidity_target = Zero)
        => /\ ret.fault # "div_by_zero"
           /\ (ret.status # "InsufficientLiquidity"
                /\ "new_token_balance" \notin ret.overflowed)
                => ret.fee = ret.self.min_fee

\* a swap of a positive amount on a pool with liquidity_target == 0
\* succeeded at min_fee, which differs from max_fee, and left no reserve
C11_Witness ==
    /\ ret.op = "swap" /\ ret.status = "Ok"
    /\ ret.self.liquidity_target = Zero
    /\ ret.token_amount # Zero
    /\ pool.token_amount = Zero
    /\ ret.fee = ret.self.min_fee
    /\ ret.self.min_fee # ret.self.max_fee

\* C12: a successful remove_liquidity withdraws exactly pool.token_amount *
\* lp_token_amount tokens, and the pool it returns holds the old
\* token_amount, st_token_amount and lp_token_amount minus token_withdrawn,
\* staked_token_withdrawn and lp_token_amount.
C12_RemoveExact ==
    (ret.op = "remove_liquidity" /\ ret.status = "Ok")
        => /\ ret.token_withdrawn = Mul(ret.self.token_amount, ret.arg)
           /\ Add(pool.token_amount, ret.token_withdrawn)
                = ret.self.token_amount
           /\ Add(pool.st_token_amount, ret.staked_token_withdrawn)
                = ret.self.st_token_amount
           /\ Add(pool.lp_token_amount, ret.arg) = ret.self.lp_token_amount

\* C13: in a successful remove_liquidity the share proportion is 0 or 1:
\* staked_token_withdrawn is the whole pool.st_token_amount when all the
\* outstanding shares are removed, and 0 when fewer are.
C13_AllOrNothing ==
    (ret.op = "remove_liquidity" /\ ret.status = "Ok")
        => /\ lp_token_proportion_of(ret.self, ret.arg) \in {Zero, N(1)}
           /\ ret.arg = ret.self.lp_token_amount
                => ret.staked_token_withdrawn = ret.self.st_token_amount
           /\ Lt(ret.arg, ret.self.lp_token_amount)
                => ret.staked_token_withdrawn = Zero

\* a pool that holds staked tokens returned none of them when some, but not
\* all, of its shares were removed
C13_Witness ==
    /\ ret.op = "remove_liquidity" /\ ret.status = "Ok"
    /\ ret.self.st_token_amount # Zero
    /\ ret.arg # Zero
    /\ Lt(ret.arg, ret.self.lp_token_amount)
    /\ ret.staked_token_withdrawn = Zero
    /\ pool.st_token_amount = ret.self.st_token_amount

\* C14: add_liquidity(d) on a pool with shares outstanding succeeds, mints
\* exactly floor(d * lp_token_amount / token_amount) shares, adds d to
\* token_amount and the minted amount to lp_token_amount.
C14_Proportional ==
    (ret.op = "add_liquidity" /\ ret.self.lp_token_amount # Zero)
        => /\ ret.status = "Ok"
           /\ ret.lp_tokens_minted =
                Div(Mul(ret.arg, ret.self.lp_token_amount),
                    ret.self.token_amount)
           /\ pool.token_amount = Add(ret.self.token_amount, ret.arg)
           /\ pool.lp_token_amount =
                Add(ret.self.lp_token_amount, ret.lp_tokens_minted)

\* the fee curve's precondition: min_fee <= max_fee and a positive target
CurveDefined(p) == Le(p.min_fee, p.max_fee) /\ p.liquidity_target # Zero

\* C15: for min_fee <= max_fee and liquidity_target > 0, calculate_fee
\* returns max_fee - floor((max_fee - min_fee) * reserve_after /
\* liquidity_target) for reserve_after < liquidity_target; its result is a
\* fee in [min_fee, max_fee]; and an evaluation at a reserve that is not
\* smaller, up to liquidity_target, returns a fee that is not larger.
C15_FeeCurve ==
    /\ [](ret.op = "calculate_fee" /\ CurveDefined(ret.self)
            => /\ ret.fault = "none"
               /\ Lt(ret.arg, ret.self.liquidity_target)
                    => ret.fee =
                         Sub(ret.self.max_fee,
                             Div(Mul(Sub(ret.self.max_fee,
                                         ret.self.min_fee), ret.arg),
                                 ret.self.liquidity_target))
               /\ Le(ret.self.min_fee, ret.fee)
               /\ Le(ret.fee, ret.self.max_fee))
    /\ [][(/\ ret.op = "calculate_fee" /\ ret'.op = "calculate_fee"
           /\ CurveDefined(ret.self)
           /\ ret'.status = "Ok"
           /\ Le(ret.arg, ret'.arg)
           /\ Le(ret'.arg, ret.self.liquidity_target))
              => Le(ret'.fee, ret.fee)]_vars

\* the curve, evaluated at a positive reserve below a positive target,
\* returned a fee strictly between min_fee and max_fee
C15_Witness ==
    /\ ret.op = "calculate_fee" /\ ret.status = "Ok"
    /\ CurveDefined(ret.self)
    /\ ret.arg # Zero
    /\ Lt(ret.arg, ret.self.liquidity_target)
    /\ Lt(ret.self.min_fee, ret.fee)
    /\ Lt(ret.fee, ret.self.max_fee)

\* the parameters of a pool
Parameters(p) == <<p.price, p.liquidity_target, p.min_fee, p.max_fee>>

\* C16: no call of add_liquidity, remove_liquidity or swap, successful or
\* not, changes price, liquidity_target, min_fee or max_fee of the pool the
\* caller holds; add_liquidity leaves st_token_amount as it was, and swap
\* leaves lp_token_amount as it was.
C16_Frame ==
    [][/\ Parameters(pool') = Parameters(pool)
       /\ ret'.op = "add_liquidity"
            => pool'.st_token_amount = pool.st_token_amount
       /\ ret'.op = "swap"
            => pool'.lp_token_amount = pool.lp_token_amount]_vars

\* a successful swap on a pool with shares outstanding changed the reserve
\* and the staked balance and kept the shares and the parameters
C16_Witness ==
    /\ ret.op = "swap" /\ ret.status = "Ok"
    /\ ret.self.lp_token_amount # Zero
    /\ pool.token_amount # ret.self.token_amount
    /\ pool.st_token_amount # ret.self.st_token_amount
    /\ pool.lp_token_amount = ret.self.lp_token_amount
    /\ Parameters(pool) = Parameters(ret.self)

\* C17: a call of remove_liquidity that passes the InsufficientLiquidity
\* guard divides by a share supply that is not 0, and so does not stop at a
\* division by zero; remove_liquidity(0) on a fresh pool is such a call.
C17_DivisorNonZero ==
    (ret.op = "remove_liquidity"
        /\ ~remove_liquidity_guard(ret.self, ret.arg))
        => (ret.self.lp_token_amount # Zero /\ ret.fault # "div_by_zero")

\* every cast to u64 in the call r kept its value, and no addition or
\* subtraction of r overflowed
FitsIn64(r) ==
    /\ r.overflowed = {}
    /\ r.op = "add_liquidity"
        => r.lp_tokens_minted = lp_tokens_minted_of(r.self, r.arg)
    /\ r.op = "remove_liquidity"
        => r.token_withdrawn = Mul(r.self.token_amount, r.arg)
    /\ r.op = "swap"
        => /\ r.token_amount = ExactGross(r)
           /\ r.fee_amount = Div(Mul(r.token_amount, r.fee), Scale)

\* the outstanding shares are at least the reserve
SharesCoverReserve(p) == Le(p.token_amount, p.lp_token_amount)

\* C18: a fresh pool has no fewer shares than reserve, and a call that
\* raises no fault and whose intermediate results all fit in 64 bits takes a
\* pool with lp_token_amount >= token_amount to one with lp_token_amount >=
\* token_amount, in which lp_token_amount == 0 implies token_amount == 0.
C18_SharesCoverReserve ==
    /\ SharesCoverReserve(pool)
    /\ [][(/\ SharesCoverReserve(pool)
           /\ ret'.status = "Ok"
           /\ FitsIn64(ret'))
              => /\ SharesCoverReserve(pool')
                 /\ pool'.lp_token_amount = Zero
                      => pool'.token_amount = Zero]_vars

\* a deposit into a pool whose reserve a swap had reduced minted more
\* shares than tokens came in, without overflow or loss in a cast
C18_Witness ==
    /\ ret.op = "add_liquidity" /\ ret.status = "Ok"
    /\ FitsIn64(ret)
    /\ ret.self.token_amount # Zero
    /\ SharesCoverReserve(ret.self)
    /\ Lt(ret.arg, ret.lp_tokens_minted)
    /\ Lt(pool.token_amount, pool.lp_token_amount)

\* C19: in a pool with min_fee <= max_fee <= 1_000_000 and a positive
\* target, no swap underflows the subtraction of the fee amount from the
\* gross amount, and a successful swap has fee_amount <= gross amount and
\* pays the caller no more than token_amount went down by.
C19_NetWithinGross ==
    (ret.op = "swap" /\ WellFormed(ret.self))
        => /\ "token_amount_net" \notin ret.overflowed
           /\ ret.status = "Ok"
                => /\ Le(ret.fee_amount, ret.token_amount)
                   /\ Le(pool.token_amount, ret.self.token_amount)
                   /\ Le(ret.token_amount_net,
                         Sub(ret.self.token_amount, pool.token_amount))

\* a successful swap in such a pool charged a fee amount that is not 0 and
\* paid the caller less than the reserve went down by
C19_Witness ==
    /\ ret.op = "swap" /\ ret.status = "Ok"
    /\ WellFormed(ret.self)
    /\ ret.fee_amount # Zero
    /\ ret.token_amount_net # Zero
    /\ Lt(ret.token_amount_net,
          Sub(ret.self.token_amount, pool.token_amount))
====
